---- MODULE Spec2Model ----
(***************************************************************************)
(* Model of the BED interval engines of the repository: sort (sort.py),    *)
(* merge (mergeBed.py), intersection (intersectBed.py) and cleaning        *)
(* (app.py).  A DataFrame is a record [columns, rows]; a row is a record   *)
(* [idx, chrom, start, end, name] whose idx is the pandas index label.     *)
(* A coordinate cell is a record [t, v]: t = "num" is the number v,        *)
(* t = "str" is the text of the decimal numeral of v, t = "bad" is a text  *)
(* that is no numeral, t = "nan" is the missing marker NaN.                *)
(***************************************************************************)
EXTENDS Integers, Sequences, FiniteSets, TLC

VARIABLES df, df2, options, arg, result, pc, problems,
          progress_bar, loop, session_state, uploaded_file

vars == <<df, df2, options, arg, result, pc, problems,
          progress_bar, loop, session_state, uploaded_file>>

\* ------------------------------------------------------------------ bounds
MaxRows == 3
MaxCoord == 1
MaxRowsA == 1
MaxRowsB == 1
MaxPos == 2
MaxRowsSel == 2
MaxFileRows == 2

\* ------------------------------------------------------------------ cells
Num(v) == [t |-> "num", v |-> v]
NaN == [t |-> "nan", v |-> 0]
StrNum(v) == [t |-> "str", v |-> v]
BadText == [t |-> "bad", v |-> 0]

\* The cell of a column the table does not hold.
NoCell == [t |-> "absent", v |-> 0]
NoText == "absent"

\* The missing marker of a text column (name).
NA == "NaN"

isnull(c) == c.t = "nan"

\* pd.to_numeric(series, errors='coerce'), cell by cell.
to_numeric(c) ==
    CASE c.t = "num" -> c
      [] c.t = "str" -> Num(c.v)
      [] OTHER -> NaN

\* Lexical order of the chromosome tokens of the model.
ChromOrder == <<"chr1", "chr10", "chr2", "chr2_random", "chrUn_gl000220">>
Chroms == {"chr1", "chr2"}
ChromRank(c) == CHOOSE i \in 1..Len(ChromOrder) : ChromOrder[i] = c

\* The canonical column names of the loaders.
bed_cols ==
    <<"chrom", "start", "end", "name", "score", "strand",
      "thickStart", "thickEnd", "itemRgb", "blockCount",
      "blockSizes", "blockStarts">>

\* The columns of a table of the model: the key and one annotation column.
TableColumns == SubSeq(bed_cols, 1, 4)
NoColumns == <<>>

DataFrame(columns, rows) == [columns |-> columns, rows |-> rows]
EmptyDataFrame == DataFrame(NoColumns, <<>>)

\* What a call hands back: a DataFrame, None, or a raised exception.
Returned(frame) == [kind |-> "DataFrame", frame |-> frame]
Raised(exc) == [kind |-> exc, frame |-> EmptyDataFrame]
NoResult == [kind |-> "nothing", frame |-> EmptyDataFrame]

\* st.session_state.detected_problems = None
NoProblems == [kind |-> "None"]

\* The except branch of a loader or of the intersection: st.error(...), return None.
ReturnedNone == [kind |-> "None", frame |-> EmptyDataFrame]

Max(a, b) == IF a >= b THEN a ELSE b
Min(a, b) == IF a <= b THEN a ELSE b

\* df.dropna(): a row goes when any of its cells is missing.
RowHasNa(r) == isnull(r.start) \/ isnull(r.end) \/ r.name = NA
dropna(rows) == SelectSeq(rows, LAMBDA r : ~RowHasNa(r))

\* df['start'] = pd.to_numeric(df['start'], errors='coerce'), same for end.
CoerceRow(r) == [r EXCEPT !.start = to_numeric(r.start), !.end = to_numeric(r.end)]

\* ------------------------------------------------------------------ sort
\* The order of one numeric key column: NaN sorts last (na_position='last').
CellBefore(a, b) ==
    \/ a.t = "num" /\ b.t = "num" /\ a.v < b.v
    \/ a.t = "num" /\ b.t = "nan"

CellTied(a, b) == a.t = b.t /\ (a.t = "num" => a.v = b.v)

\* The key order with the end column left out.
KeyLessChromStart(a, b) ==
    \/ ChromRank(a.chrom) < ChromRank(b.chrom)
    \/ a.chrom = b.chrom /\ CellBefore(a.start, b.start)

\* The key order that also holds between rows of equal keys.
KeyLessOrTied(a, b) ==
    \/ ChromRank(a.chrom) < ChromRank(b.chrom)
    \/ /\ a.chrom = b.chrom
       /\ \/ CellBefore(a.start, b.start)
          \/ CellTied(a.start, b.start) /\ ~CellBefore(b.end, a.end)

\* Key order of sort_values(['chrom', 'start', 'end']) on numeric columns.
KeyLess(a, b) ==
    \/ ChromRank(a.chrom) < ChromRank(b.chrom)
    \/ /\ a.chrom = b.chrom
       /\ \/ CellBefore(a.start, b.start)
          \/ CellTied(a.start, b.start) /\ CellBefore(a.end, b.end)

\* Stable insertion: r goes after every row that is not greater than it.
RECURSIVE InsertRow(_, _)
InsertRow(sorted, r) ==
    IF sorted = <<>> THEN <<r>>
    ELSE IF KeyLess(r, Head(sorted)) THEN <<r>> \o sorted
         ELSE <<Head(sorted)>> \o InsertRow(Tail(sorted), r)

RECURSIVE sort_values(_)
sort_values(rows) ==
    IF rows = <<>> THEN <<>>
    ELSE InsertRow(sort_values(SubSeq(rows, 1, Len(rows) - 1)), rows[Len(rows)])

\* sort_bed(df): df.sort_values(by=["chrom", "start", "end"]), a new frame.
sort_bed(frame) == DataFrame(frame.columns, sort_values(frame.rows))

\* ------------------------------------------------------------------ merge
\* Joins with the strict test: touching intervals stay apart.
JoinsStrict(row, current) ==
    row.chrom = current.chrom /\ row.start.v < current.end.v

\* The test of the forward scan: the row joins the open accumulator.
Joins(row, current) ==
    row.chrom = current.chrom /\ row.start.v <= current.end.v

\* The loop of merge_bed_files over the sorted rows, from position i, with the
\* flushed records `merged` and the open accumulator `current` (<<>> is None).
RECURSIVE MergeScan(_, _, _, _)
MergeScan(rows, i, merged, current) ==
    IF i > Len(rows)
    THEN merged \o current
    ELSE LET row == rows[i] IN
         IF current = <<>>
         THEN MergeScan(rows, i + 1, merged, <<row>>)
         ELSE IF Joins(row, current[1])
              THEN MergeScan(rows, i + 1, merged,
                     <<[current[1] EXCEPT !.end = Num(Max(current[1].end.v, row.end.v))]>>)
              ELSE MergeScan(rows, i + 1, merged \o current, <<row>>)

\* pd.DataFrame(records): a fresh RangeIndex; no record, no column.
Reindex(rows) == [i \in 1..Len(rows) |-> [rows[i] EXCEPT !.idx = i]]
FrameOfRecords(columns, rows) ==
    IF rows = <<>> THEN EmptyDataFrame ELSE DataFrame(columns, Reindex(rows))

\* The rows the caller's frame holds after lines 13-15 of merge_bed_files.
MergeCleanedRows(frame) == dropna([i \in 1..Len(frame.rows) |-> CoerceRow(frame.rows[i])])

\* The scan trusting the caller's order.
MergeOrderUnsorted(rows) == rows

\* The order in which the scan visits the rows.
MergeOrder(rows) == sort_values(rows)

\* merge_bed_files(df): [df |-> the caller's frame after the call,
\*                       ret |-> what the call hands back].
merge_bed_files(frame) ==
    IF frame.columns = NoColumns
    THEN [df |-> frame, ret |-> Raised("KeyError")]
    ELSE LET cleaned == MergeCleanedRows(frame)
             sorted == MergeOrder(cleaned)
         IN  [df |-> DataFrame(frame.columns, cleaned),
              ret |-> Returned(FrameOfRecords(frame.columns,
                                             MergeScan(sorted, 1, <<>>, <<>>)))]

\* ------------------------------------------------------------------ clean
patterns_to_remove ==
    <<"chrUn", "random", "_alt", "scaffold",
      "_hap", "_CTG", "_v", "KI", "GL", "JH", "NT", "NW_">>

\* The patterns that occur (case-sensitively) in each chromosome token.
PatternsIn(chrom) ==
    CASE chrom = "chrUn_gl000220" -> {"chrUn"}
      [] chrom = "chr2_random" -> {"random"}
      [] chrom = "chrUn_KI270742v1" -> {"chrUn", "KI"}
      [] chrom = "HSCHR19KIR_ABC08_A1_HAP_CTG3_1" -> {"KI", "_CTG"}
      [] OTHER -> {}

\* chrom_col.str.contains('|'.join(patterns_to_remove), na=False)
ContainsAny(chrom, patterns) ==
    \E i \in 1..Len(patterns) : patterns[i] \in PatternsIn(chrom)

\* series < series on numeric cells: a comparison with NaN is False.
CellLess(a, b) == a.t = "num" /\ b.t = "num" /\ a.v < b.v

\* clean_bed_file(df) on a frame whose coordinates are numbers or NaN.
clean_bed_file(frame) ==
    LET df_clean == SelectSeq(frame.rows,
                       LAMBDA r : ~ContainsAny(r.chrom, patterns_to_remove))
    IN  DataFrame(frame.columns,
                  SelectSeq(df_clean, LAMBDA r : CellLess(r.start, r.end)))

\* ------------------------------------------------------------------ scan
\* series >= series on numeric cells: a comparison with NaN is False.
CellAtLeast(a, b) == a.t = "num" /\ b.t = "num" /\ a.v >= b.v

bizarre_patterns == <<"_hap", "_CTG", "_v", "KI", "GL", "JH", "NT", "NW_">>

RECURSIVE SumSeq(_)
SumSeq(counts) == IF counts = <<>> THEN 0 ELSE Head(counts) + SumSeq(Tail(counts))

\* len(chrom_col[chrom_col.str.contains(pattern, na=False)])
ContainsCount(rows, pattern) ==
    Cardinality({i \in 1..Len(rows) : pattern \in PatternsIn(rows[i].chrom)})

\* The loop of lines 33-34: one count per pattern, added up.
BizarreCount(rows) ==
    SumSeq([k \in 1..Len(bizarre_patterns) |-> ContainsCount(rows, bizarre_patterns[k])])

\* detect_bed_problems(df) on a frame whose coordinates are numbers or NaN;
\* without a third column the comparison raises and the count stays 0.
detect_bed_problems(frame) ==
    LET chrUn == ContainsCount(frame.rows, "chrUn")
        random == ContainsCount(frame.rows, "random")
        alt == ContainsCount(frame.rows, "_alt")
        scaffold == ContainsCount(frame.rows, "scaffold")
        other_bizarre == BizarreCount(frame.rows)
        inverted_coords ==
            IF Len(frame.columns) < 3 THEN 0
            ELSE Cardinality({i \in 1..Len(frame.rows) :
                                 CellAtLeast(frame.rows[i].start, frame.rows[i].end)})
    IN  [kind |-> "dict", chrUn |-> chrUn, random |-> random, alt |-> alt,
         scaffold |-> scaffold, inverted_coords |-> inverted_coords,
         other_bizarre |-> other_bizarre,
         total |-> chrUn + random + alt + scaffold + inverted_coords + other_bizarre]

\* test_df = df.head(100)
HeadRows == 100

\* validate_bed_format(df)["is_valid"] on a frame whose coordinates are
\* numbers or NaN.
validate_bed_format(frame) ==
    /\ Len(frame.columns) >= 3
    /\ LET test_df == SubSeq(frame.rows, 1, Min(Len(frame.rows), HeadRows))
       IN  ~\E i \in 1..Len(test_df) : CellAtLeast(test_df[i].start, test_df[i].end)

\* ------------------------------------------------------------------ intersect
RECURSIVE Flatten(_)
Flatten(seqs) == IF seqs = <<>> THEN <<>> ELSE Head(seqs) \o Flatten(Tail(seqs))

\* The rows kept when dropna() looks at every column of the caller's table.
ThreeColumnsAllCells(frame) ==
    LET coerced == [i \in 1..Len(frame.rows) |-> CoerceRow(frame.rows[i])]
        kept == SelectSeq(coerced, LAMBDA r : ~RowHasNa(r))
    IN  [i \in 1..Len(kept) |->
            [idx |-> kept[i].idx, chrom |-> kept[i].chrom,
             start |-> kept[i].start.v, end |-> kept[i].end.v]]

\* df.iloc[:, :3] with start and end coerced, then dropna(): the rows whose
\* coordinates are numbers, as [idx, chrom, start, end] with plain numbers.
ThreeColumns(frame) ==
    LET coerced == [i \in 1..Len(frame.rows) |-> CoerceRow(frame.rows[i])]
        kept == SelectSeq(coerced, LAMBDA r : ~isnull(r.start) /\ ~isnull(r.end))
    IN  [i \in 1..Len(kept) |->
            [idx |-> kept[i].idx, chrom |-> kept[i].chrom,
             start |-> kept[i].start.v, end |-> kept[i].end.v]]

ChromsOf(rows) == {rows[i].chrom : i \in 1..Len(rows)}

\* set(groups_a.keys()) & set(groups_b.keys())
common_chroms(frame1, frame2) ==
    ChromsOf(ThreeColumns(frame1)) \cap ChromsOf(ThreeColumns(frame2))

\* The orders in which a for loop may visit a Python set.
SetOrders(S) ==
    {o \in [1..Cardinality(S) -> S] : \A i, j \in 1..Cardinality(S) : o[i] = o[j] => i = j}

\* chrom_groups.get_group(chrom)
get_group(rows, chrom) == SelectSeq(rows, LAMBDA r : r.chrom = chrom)

\* The vectorised test (b_starts < end_a) & (b_ends > start_a).
Overlaps(a, b) == b.start < a.end /\ b.end > a.start

\* The overlap length with the bounds of the union in place of the intersection.
overlap_length_span(a, b) == Max(a.end, b.end) - Min(a.start, b.start)

\* overlap_end - overlap_start
overlap_length(a, b) == Min(a.end, b.end) - Max(a.start, b.start)

\* The guard of the result row with >= in place of >.
LengthGuardNonNegative(len) == len >= 0

\* if overlap_length > 0
LengthGuard(len) == len > 0

\* options.get(key, default): options is a dict, a function on the keys it holds.
get(opts, key, default) == IF key \in DOMAIN opts THEN opts[key] ELSE default

\* The dict appended to results for the pair (a, b).
result_row(a, b, opts) ==
    IF get(opts, "wo", FALSE)
    THEN [idx |-> 0, A_chrom |-> a.chrom, A_start |-> a.start, A_end |-> a.end,
          B_chrom |-> a.chrom, B_start |-> b.start, B_end |-> b.end,
          overlap |-> overlap_length(a, b)]
    ELSE [idx |-> 0, A_chrom |-> a.chrom, A_start |-> a.start, A_end |-> a.end,
          B_chrom |-> a.chrom, B_start |-> b.start, B_end |-> b.end]

\* The rows one chromosome group appends to results (lines 110-148).
GroupResults(rows_a, rows_b, chrom, opts) ==
    LET regions_a == get_group(rows_a, chrom)
        regions_b == get_group(rows_b, chrom)
        overlapping(a) ==
            SelectSeq(regions_b,
                      LAMBDA b : Overlaps(a, b) /\ LengthGuard(overlap_length(a, b)))
    IN  Flatten([i \in 1..Len(regions_a) |->
            [j \in 1..Len(overlapping(regions_a[i])) |->
                result_row(regions_a[i], overlapping(regions_a[i])[j], opts)]])

\* The index labels of the A rows the -v scan finds intersecting (lines 182-195).
intersecting_a_indices(rows_a, rows_b, chroms) ==
    {rows_a[i].idx : i \in {k \in 1..Len(rows_a) :
        /\ rows_a[k].chrom \in chroms
        /\ \E j \in 1..Len(rows_b) :
              rows_b[j].chrom = rows_a[k].chrom /\ Overlaps(rows_a[k], rows_b[j])}}

\* result_df[['A_chrom', 'A_start', 'A_end']] and its B counterpart.
ARows(rows) ==
    [i \in 1..Len(rows) |->
        [idx |-> rows[i].idx, A_chrom |-> rows[i].A_chrom,
         A_start |-> rows[i].A_start, A_end |-> rows[i].A_end]]
BRows(rows) ==
    [i \in 1..Len(rows) |->
        [idx |-> rows[i].idx, B_chrom |-> rows[i].B_chrom,
         B_start |-> rows[i].B_start, B_end |-> rows[i].B_end]]

\* DataFrame.drop_duplicates(): the first of equal rows stays, with its label.
RECURSIVE drop_duplicates(_)
drop_duplicates(rows) ==
    IF rows = <<>> THEN <<>>
    ELSE LET front == drop_duplicates(SubSeq(rows, 1, Len(rows) - 1))
             last == rows[Len(rows)]
         IN  IF \E i \in 1..Len(front) : [front[i] EXCEPT !.idx = 0] = [last EXCEPT !.idx = 0]
             THEN front ELSE Append(front, last)

cols_wo == <<"A_chrom", "A_start", "A_end", "B_chrom", "B_start", "B_end", "overlap">>
cols_ab == <<"A_chrom", "A_start", "A_end", "B_chrom", "B_start", "B_end">>
cols_a == <<"A_chrom", "A_start", "A_end">>
cols_b == <<"B_chrom", "B_start", "B_end">>

\* The column selection with the test of wa and wb ahead of the test of wo.
SelectColumnsPairFirst(results, opts) ==
    IF get(opts, "wa", TRUE) /\ get(opts, "wb", TRUE) THEN DataFrame(cols_ab, results)
    ELSE IF get(opts, "wo", FALSE) THEN DataFrame(cols_wo, results)
    ELSE IF get(opts, "wa", TRUE) THEN DataFrame(cols_a, drop_duplicates(ARows(results)))
    ELSE IF get(opts, "wb", TRUE) THEN DataFrame(cols_b, drop_duplicates(BRows(results)))
    ELSE DataFrame(cols_a, drop_duplicates(ARows(results)))

\* The column selection of lines 159-173.
SelectColumns(results, opts) ==
    IF get(opts, "wo", FALSE) THEN DataFrame(cols_wo, results)
    ELSE IF get(opts, "wa", TRUE) /\ get(opts, "wb", TRUE) THEN DataFrame(cols_ab, results)
    ELSE IF get(opts, "wa", TRUE) THEN DataFrame(cols_a, drop_duplicates(ARows(results)))
    ELSE IF get(opts, "wb", TRUE) THEN DataFrame(cols_b, drop_duplicates(BRows(results)))
    ELSE DataFrame(cols_a, drop_duplicates(ARows(results)))

\* The -v branch of lines 176-200.
NonIntersecting(rows_a, rows_b, chroms) ==
    LET non_intersecting ==
            SelectSeq(rows_a,
                LAMBDA r : r.idx \notin intersecting_a_indices(rows_a, rows_b, chroms))
    IN  DataFrame(cols_a,
            [i \in 1..Len(non_intersecting) |->
                [idx |-> non_intersecting[i].idx, A_chrom |-> non_intersecting[i].chrom,
                 A_start |-> non_intersecting[i].start, A_end |-> non_intersecting[i].end]])

\* "Nothing found" handed back as the failure value.
NoIntersectionAsFailure == ReturnedNone

\* return pd.DataFrame(): no common chromosome (line 100), no result row (line 154).
NoIntersection == Returned(EmptyDataFrame)

\* intersect_bedtools_advanced(df1, df2, options), the loop visiting the set
\* common_chroms in the order `order`.  options['f'] is never read.  A frame
\* of fewer than three columns makes the assignment of the three column names
\* raise (lines 77-78), which the except branch turns into None.
intersect_bedtools_advanced(frame1, frame2, opts, order) ==
    IF Len(frame1.columns) < 3 \/ Len(frame2.columns) < 3
    THEN ReturnedNone
    ELSE LET df_a == ThreeColumns(frame1)
             df_b == ThreeColumns(frame2)
             chroms == common_chroms(frame1, frame2)
             results == Reindex(Flatten([i \in 1..Len(order) |->
                            GroupResults(df_a, df_b, order[i], opts)]))
         IN  IF chroms = {} THEN NoIntersection
             ELSE IF results = <<>> THEN NoIntersection
             ELSE IF get(opts, "v", FALSE) THEN Returned(NonIntersecting(df_a, df_b, chroms))
             ELSE Returned(SelectColumns(results, opts))

\* intersect_bedtools(df1, df2): the options dict holds wa and wb only.
intersect_bedtools(frame1, frame2, order) ==
    intersect_bedtools_advanced(frame1, frame2, [wa |-> TRUE, wb |-> TRUE], order)

\* ------------------------------------------------------------------ idle parts
\* No progress bar on the page, and none yet created by the call.
NoBar == [shown |-> FALSE, value |-> [num |-> 0, den |-> 1], reports |-> <<>>]

\* The for loop over common_chroms not entered.
NoLoop == [order |-> <<>>, i |-> 0, results |-> <<>>]

\* No file in the uploader (uploaded_file is None).
NoFile == [kind |-> "None"]

\* st.session_state before main has run.
NoSession == [kind |-> "None"]

\* ------------------------------------------------------------------ inputs
Coords == 0..MaxCoord

\* Rows as load_bed hands them over: numeric coordinates, no start > end.
NumericRows ==
    {r \in {[idx |-> 0, chrom |-> c, start |-> Num(s), end |-> Num(e), name |-> "n"] :
                c \in Chroms, s \in Coords, e \in Coords} :
        r.start.v <= r.end.v}

\* Rows a direct caller may pass besides: a missing annotation, a start that
\* is no numeral, an inverted interval.
DirtyRows ==
    {[idx |-> 0, chrom |-> "chr1", start |-> Num(0), end |-> Num(1), name |-> NA],
     [idx |-> 0, chrom |-> "chr1", start |-> BadText, end |-> Num(1), name |-> "n"],
     [idx |-> 0, chrom |-> "chr2", start |-> Num(1), end |-> Num(0), name |-> "n"]}

\* Every frame of at most n rows over the row set, with a RangeIndex.
FramesOver(rowset, n) ==
    {DataFrame(TableColumns, Reindex(rows)) :
        rows \in UNION {[1..k -> rowset] : k \in 0..n}}

NoOptions == [wa |-> TRUE, wb |-> TRUE, wo |-> FALSE, v |-> FALSE, f |-> 0]

\* ------------------------------------------------------------------ Spec:
\* one table, and the tools of the Tools menu applied to it.
Init ==
    /\ df \in FramesOver(NumericRows \cup DirtyRows, MaxRows)
    /\ df2 = EmptyDataFrame
    /\ options = NoOptions
    /\ arg = df
    /\ result = NoResult
    /\ pc = "loaded"
    /\ problems = NoProblems
    /\ progress_bar = NoBar
    /\ loop = NoLoop
    /\ session_state = NoSession
    /\ uploaded_file = NoFile

\* The start and end columns hold numbers or NaN, as after load_bed.
NumericColumns(frame) ==
    \A i \in 1..Len(frame.rows) :
        frame.rows[i].start.t \in {"num", "nan"} /\ frame.rows[i].end.t \in {"num", "nan"}

\* result = merge_bed_files(df)
Merge ==
    /\ pc = "loaded"
    /\ LET call == merge_bed_files(df) IN
        /\ df' = call.df
        /\ result' = call.ret
    /\ pc' = "merged"
    /\ UNCHANGED <<df2, options, arg, problems>>
    /\ UNCHANGED <<progress_bar, loop, session_state, uploaded_file>>

\* result = merge_bed_files(result): the merge of a merged table.
MergeAgain ==
    /\ pc = "merged"
    /\ result.kind = "DataFrame"
    /\ result' = merge_bed_files(result.frame).ret
    /\ pc' = "remerged"
    /\ UNCHANGED <<df, df2, options, arg, problems>>
    /\ UNCHANGED <<progress_bar, loop, session_state, uploaded_file>>

\* result = sort_bed(df)
Sort ==
    /\ pc = "loaded"
    /\ NumericColumns(df)
    /\ result' = Returned(sort_bed(df))
    /\ pc' = "sorted"
    /\ UNCHANGED <<df, df2, options, arg, problems>>
    /\ UNCHANGED <<progress_bar, loop, session_state, uploaded_file>>

\* result = clean_bed_file(df)
Clean ==
    /\ pc = "loaded"
    /\ NumericColumns(df)
    /\ result' = Returned(clean_bed_file(df))
    /\ pc' = "cleaned"
    /\ UNCHANGED <<df, df2, options, arg, problems>>
    /\ UNCHANGED <<progress_bar, loop, session_state, uploaded_file>>

Next == Merge \/ MergeAgain \/ Sort \/ Clean

Spec == Init /\ [][Next]_vars

\* ------------------------------------------------------------------ SpecSort:
\* the sort of a table whose records differ in chromosome, in start, in end
\* or in the annotation only.
SortRows ==
    {[idx |-> 0, chrom |-> "chr1", start |-> Num(0), end |-> Num(5), name |-> "n"],
     [idx |-> 0, chrom |-> "chr1", start |-> Num(1), end |-> Num(2), name |-> "n"],
     [idx |-> 0, chrom |-> "chr1", start |-> Num(1), end |-> Num(2), name |-> "m"],
     [idx |-> 0, chrom |-> "chr1", start |-> Num(1), end |-> Num(10), name |-> "n"],
     [idx |-> 0, chrom |-> "chr10", start |-> Num(1), end |-> Num(2), name |-> "n"],
     [idx |-> 0, chrom |-> "chr2", start |-> Num(5), end |-> Num(10), name |-> "n"],
     [idx |-> 0, chrom |-> "chr2", start |-> Num(10), end |-> Num(12), name |-> "n"]}

InitSort ==
    /\ df \in FramesOver(SortRows, MaxRows)
    /\ df2 = EmptyDataFrame
    /\ options = NoOptions
    /\ arg = df
    /\ result = NoResult
    /\ pc = "loaded"
    /\ problems = NoProblems
    /\ progress_bar = NoBar
    /\ loop = NoLoop
    /\ session_state = NoSession
    /\ uploaded_file = NoFile

NextSort == Sort

SpecSort == InitSort /\ [][NextSort]_vars

\* ------------------------------------------------------------------ SpecPairs
\* and SpecIntersect: two tables A (df) and B (df2) as read_bed_file hands
\* them over, unvalidated, and one run of the intersection.
Positions == 0..MaxPos

IntervalRows(chroms) ==
    {[idx |-> 0, chrom |-> c, start |-> Num(s), end |-> Num(e), name |-> "n"] :
        c \in chroms, s \in Positions, e \in Positions}

\* A row whose start is no numeral, in a text column.
TextRows ==
    {[idx |-> 0, chrom |-> "chr1", start |-> BadText, end |-> StrNum(1), name |-> "n"]}

Option(wa, wb, wo, v, f) == [wa |-> wa, wb |-> wb, wo |-> wo, v |-> v, f |-> f]

\* The reporting modes that output one row per pair.
PairOptions == {Option(TRUE, TRUE, wo, FALSE, 0) : wo \in BOOLEAN}

\* Every combination of the check boxes, and the slider (f, in percent) at 0 or 100.
AllOptions ==
    {Option(wa, wb, wo, v, 0) : wa \in BOOLEAN, wb \in BOOLEAN, wo \in BOOLEAN, v \in BOOLEAN}
        \cup {Option(TRUE, TRUE, FALSE, v, 100) : v \in BOOLEAN}

InitTables(rows_a, rows_b) ==
    /\ df \in FramesOver(rows_a, MaxRowsA)
    /\ df2 \in FramesOver(rows_b, MaxRowsB)
    /\ options = NoOptions
    /\ arg = df
    /\ result = NoResult
    /\ pc = "loaded"
    /\ problems = NoProblems
    /\ progress_bar = NoBar
    /\ loop = NoLoop
    /\ session_state = NoSession
    /\ uploaded_file = NoFile

\* result_df = intersect_bedtools_advanced(df1, df2, options)
IntersectWith(optset) ==
    /\ pc = "loaded"
    /\ \E opts \in optset, order \in SetOrders(common_chroms(df, df2)) :
          /\ options' = opts
          /\ result' = intersect_bedtools_advanced(df, df2, opts, order)
    /\ pc' = "intersected"
    /\ UNCHANGED <<df, df2, arg, problems>>
    /\ UNCHANGED <<progress_bar, loop, session_state, uploaded_file>>

InitPairs == InitTables(IntervalRows(Chroms) \cup TextRows, IntervalRows({"chr1"}))

IntersectPairs == IntersectWith(PairOptions)

NextPairs == IntersectPairs

SpecPairs == InitPairs /\ [][NextPairs]_vars

InitIntersect == InitTables(IntervalRows(Chroms) \cup TextRows, IntervalRows(Chroms))

Intersect == IntersectWith(AllOptions)

NextIntersect == Intersect

SpecIntersect == InitIntersect /\ [][NextIntersect]_vars

\* ------------------------------------------------------------------ SpecSelect:
\* the intersection called with an options dict that may lack keys, on tables
\* of up to MaxRowsSel records, or on a table that lacks the end column.
SelectRowsA ==
    {[idx |-> 0, chrom |-> "chr1", start |-> Num(0), end |-> Num(2), name |-> "n"],
     [idx |-> 0, chrom |-> "chr1", start |-> Num(0), end |-> Num(1), name |-> "n"],
     [idx |-> 0, chrom |-> "chr2", start |-> Num(0), end |-> Num(1), name |-> "n"]}
SelectRowsB ==
    {[idx |-> 0, chrom |-> "chr1", start |-> Num(0), end |-> Num(2), name |-> "n"],
     [idx |-> 0, chrom |-> "chr1", start |-> Num(0), end |-> Num(1), name |-> "n"],
     [idx |-> 0, chrom |-> "chr1", start |-> Num(1), end |-> Num(2), name |-> "n"]}

\* The frame holding the first n (2 or 3) columns of a table of the model.
FirstColumns(frame, n) ==
    DataFrame(SubSeq(frame.columns, 1, n),
              [i \in 1..Len(frame.rows) |->
                  [frame.rows[i] EXCEPT !.end = IF n < 3 THEN NoCell ELSE @,
                                        !.name = NoText]])

SelectFrames(rowset) ==
    FramesOver(rowset, MaxRowsSel)
        \cup {FirstColumns(frame, 2) : frame \in FramesOver(rowset, 1)}

\* The dicts over the check-box keys: any key may be absent; v, when held, is set.
OptionDicts ==
    {d \in UNION {[K -> BOOLEAN] : K \in SUBSET {"wa", "wb", "wo", "v"}} :
        "v" \in DOMAIN d => d["v"]}

InitSelect ==
    /\ df \in SelectFrames(SelectRowsA)
    /\ df2 \in SelectFrames(SelectRowsB)
    /\ options = NoOptions
    /\ arg = df
    /\ result = NoResult
    /\ pc = "loaded"
    /\ problems = NoProblems
    /\ progress_bar = NoBar
    /\ loop = NoLoop
    /\ session_state = NoSession
    /\ uploaded_file = NoFile

IntersectSelect == IntersectWith(OptionDicts)

NextSelect == IntersectSelect

SpecSelect == InitSelect /\ [][NextSelect]_vars

\* ------------------------------------------------------------------ SpecAnnot:
\* the intersection of tables whose annotation column holds a value or the
\* missing marker, or that hold the three key columns only.
AnnotRowsA ==
    {[idx |-> 0, chrom |-> "chr1", start |-> Num(0), end |-> Num(2), name |-> "n"],
     [idx |-> 0, chrom |-> "chr1", start |-> Num(0), end |-> Num(2), name |-> NA],
     [idx |-> 0, chrom |-> "chr2", start |-> Num(0), end |-> Num(1), name |-> "n"]}
AnnotRowsB ==
    {[idx |-> 0, chrom |-> "chr1", start |-> Num(1), end |-> Num(2), name |-> "n"],
     [idx |-> 0, chrom |-> "chr1", start |-> Num(1), end |-> Num(2), name |-> NA],
     [idx |-> 0, chrom |-> "chr2", start |-> Num(0), end |-> Num(1), name |-> "n"]}

AnnotFrames(rowset) ==
    FramesOver(rowset, MaxRowsSel)
        \cup {FirstColumns(frame, 3) : frame \in FramesOver(rowset, MaxRowsSel)}

InitAnnot ==
    /\ df \in AnnotFrames(AnnotRowsA)
    /\ df2 \in AnnotFrames(AnnotRowsB)
    /\ options = NoOptions
    /\ arg = df
    /\ result = NoResult
    /\ pc = "loaded"
    /\ problems = NoProblems
    /\ progress_bar = NoBar
    /\ loop = NoLoop
    /\ session_state = NoSession
    /\ uploaded_file = NoFile

IntersectAnnot == IntersectWith(AllOptions)

NextAnnot == IntersectAnnot

SpecAnnot == InitAnnot /\ [][NextAnnot]_vars

\* ------------------------------------------------------------------ load
\* An uploaded file: ncols tab-separated columns in every line and, for each
\* line, the texts of its first four columns.  Its start and end texts are
\* numerals (t = "str") or not (t = "bad").
FileWidths == {2, 3, 12, 13}

FileRows ==
    {[chrom |-> "chr1", start |-> StrNum(0), end |-> StrNum(1), name |-> "n"],
     [chrom |-> "chr1", start |-> StrNum(1), end |-> StrNum(0), name |-> "n"],
     [chrom |-> "chr1", start |-> BadText, end |-> StrNum(1), name |-> "n"],
     [chrom |-> "chr2_random", start |-> StrNum(0), end |-> StrNum(1), name |-> "n"]}

\* The line cut to the columns the file holds.
FileRow(r, ncols) ==
    [r EXCEPT !.end = IF ncols < 3 THEN NoCell ELSE @,
              !.name = IF ncols < 4 THEN NoText ELSE @]

Files ==
    {[ncols |-> n, rows |-> [i \in 1..Len(rows) |-> FileRow(rows[i], n)]] :
        n \in FileWidths, rows \in UNION {[1..k -> FileRows] : k \in 1..MaxFileRows}}

\* st.error(message); return None
Failed(message) == [kind |-> "None", frame |-> EmptyDataFrame, error |-> message]

\* load_bed(uploaded_file): every cell is read as text, the columns are named
\* (which raises when the file holds more columns than bed_cols has names),
\* start and end are coerced, and the two validations follow.
load_bed(file) ==
    IF file.ncols > Len(bed_cols)
    THEN Failed("Loading error")
    ELSE IF file.ncols < 3
    THEN Failed("Invalid BED format: minimum 3 columns required")
    ELSE LET rows == [i \in 1..Len(file.rows) |->
                         CoerceRow([idx |-> i, chrom |-> file.rows[i].chrom,
                                    start |-> file.rows[i].start, end |-> file.rows[i].end,
                                    name |-> file.rows[i].name])]
         IN  IF \E i \in 1..Len(rows) : CellLess(rows[i].end, rows[i].start)
             THEN Failed("Error: start positions > end positions detected")
             ELSE Returned(DataFrame(SubSeq(bed_cols, 1, file.ncols), rows))

\* The cell of a column whose type read_csv infers: numbers when every cell of
\* the column is a numeral, the texts as they are otherwise.
InferCell(column, c) ==
    IF \A i \in 1..Len(column) : column[i].t = "str" THEN to_numeric(c) ELSE c

\* The value of a start cell read into the chrom column.
CellToken(c) == IF c.t = "str" THEN ToString(c.v) ELSE "x"

\* read_bed_file(uploaded_file): read_csv with names=bed_cols[:num_columns] and
\* inferred types.  A file of one column more than bed_cols has names gets
\* its first column as the index and the names on the columns after it:
\* chrom on the start texts, start on the end texts, end on the fourth column.
read_bed_file(file) ==
    LET starts == [i \in 1..Len(file.rows) |-> file.rows[i].start]
        ends == [i \in 1..Len(file.rows) |-> file.rows[i].end]
    IN  IF file.ncols > Len(bed_cols)
        THEN Returned(DataFrame(bed_cols,
                 [i \in 1..Len(file.rows) |->
                     [idx |-> file.rows[i].chrom,
                      chrom |-> CellToken(InferCell(starts, starts[i])),
                      start |-> InferCell(ends, ends[i]),
                      end |-> BadText,
                      name |-> file.rows[i].name]]))
        ELSE Returned(DataFrame(SubSeq(bed_cols, 1, file.ncols),
                 [i \in 1..Len(file.rows) |->
                     [idx |-> i, chrom |-> file.rows[i].chrom,
                      start |-> InferCell(starts, starts[i]),
                      end |-> InferCell(ends, ends[i]),
                      name |-> file.rows[i].name]]))

\* ------------------------------------------------------------------ SpecLoad:
\* one run of the application on an uploaded file (arg).  df is
\* st.session_state.cleaned_df once pc = "file_loaded".
InitLoad ==
    /\ arg \in Files
    /\ df = EmptyDataFrame
    /\ df2 = EmptyDataFrame
    /\ options = NoOptions
    /\ result = NoResult
    /\ pc = "uploaded"
    /\ problems = NoProblems
    /\ progress_bar = NoBar
    /\ loop = NoLoop
    /\ session_state = NoSession
    /\ uploaded_file = NoFile

\* main, lines 153-191: load, validate, scan, and keep the table.
Upload ==
    /\ pc = "uploaded"
    /\ LET loaded == load_bed(arg) IN
        /\ result' = loaded
        /\ IF loaded.kind = "DataFrame"
           THEN /\ df' = loaded.frame
                /\ problems' = IF validate_bed_format(loaded.frame)
                               THEN detect_bed_problems(loaded.frame)
                               ELSE NoProblems
                /\ pc' = "file_loaded"
           ELSE /\ pc' = "load_failed"
                /\ UNCHANGED <<df, problems>>
    /\ UNCHANGED <<df2, options, arg>>
    /\ UNCHANGED <<progress_bar, loop, session_state, uploaded_file>>

\* The Clean File button (lines 242-273), shown while a report with a count
\* above 0 is held.
CleanFile ==
    /\ pc = "file_loaded"
    /\ problems # NoProblems
    /\ problems.total > 0
    /\ df' = clean_bed_file(df)
    /\ problems' = NoProblems
    /\ UNCHANGED <<df2, options, arg, result, pc>>
    /\ UNCHANGED <<progress_bar, loop, session_state, uploaded_file>>

\* The Sort button (lines 335-339).
SortTool ==
    /\ pc = "file_loaded"
    /\ result' = Returned(sort_bed(df))
    /\ pc' = "sorted"
    /\ UNCHANGED <<df, df2, options, arg, problems>>
    /\ UNCHANGED <<progress_bar, loop, session_state, uploaded_file>>

\* The Merge button (lines 330-333).
MergeTool ==
    /\ pc = "file_loaded"
    /\ LET call == merge_bed_files(df) IN
        /\ df' = call.df
        /\ result' = call.ret
    /\ pc' = "merged"
    /\ UNCHANGED <<df2, options, arg, problems>>
    /\ UNCHANGED <<progress_bar, loop, session_state, uploaded_file>>

\* The Intersect section (lines 346-375): the uploaded file and a second file
\* are both read by read_bed_file and handed to intersect_bedtools.
IntersectTool ==
    /\ pc = "file_loaded"
    /\ \E file_b \in Files :
          LET df1 == read_bed_file(arg).frame
              second == read_bed_file(file_b).frame
          IN  \E order \in SetOrders(common_chroms(df1, second)) :
                  /\ df2' = second
                  /\ result' = intersect_bedtools(df1, second, order)
    /\ pc' = "intersected"
    /\ UNCHANGED <<df, options, arg, problems>>
    /\ UNCHANGED <<progress_bar, loop, session_state, uploaded_file>>

NextLoad == Upload \/ CleanFile \/ SortTool \/ MergeTool \/ IntersectTool

SpecLoad == InitLoad /\ [][NextLoad]_vars

\* ------------------------------------------------------------------ SpecScan:
\* the quality scan of a table of numeric coordinates.
ScanChroms ==
    {"chr1", "chrUn_gl000220", "chr2_random", "chrUn_KI270742v1",
     "HSCHR19KIR_ABC08_A1_HAP_CTG3_1"}

ScanRows ==
    {[idx |-> 0, chrom |-> c, start |-> Num(p[1]), end |-> Num(p[2]), name |-> "n"] :
        c \in ScanChroms, p \in {<<0, 1>>, <<1, 1>>, <<1, 0>>}}

InitScan ==
    /\ df \in FramesOver(ScanRows, MaxRows)
    /\ df2 = EmptyDataFrame
    /\ options = NoOptions
    /\ arg = df
    /\ result = NoResult
    /\ pc = "loaded"
    /\ problems = NoProblems
    /\ progress_bar = NoBar
    /\ loop = NoLoop
    /\ session_state = NoSession
    /\ uploaded_file = NoFile

\* problems = detect_bed_problems(df)
Detect ==
    /\ pc = "loaded"
    /\ problems' = detect_bed_problems(df)
    /\ pc' = "scanned"
    /\ UNCHANGED <<df, df2, options, arg, result>>
    /\ UNCHANGED <<progress_bar, loop, session_state, uploaded_file>>

NextScan == Detect

SpecScan == InitScan /\ [][NextScan]_vars

\* ------------------------------------------------------------------ SpecClean:
\* the cleaning of a table as load_bed hands it over: coordinates that were no
\* numerals are NaN.
MissingRows ==
    {[idx |-> 0, chrom |-> "chr1", start |-> NaN, end |-> Num(1), name |-> "n"],
     [idx |-> 0, chrom |-> "chr2_random", start |-> Num(0), end |-> NaN, name |-> "n"]}

InitClean ==
    /\ df \in FramesOver(ScanRows \cup MissingRows, MaxRows)
    /\ df2 = EmptyDataFrame
    /\ options = NoOptions
    /\ arg = df
    /\ result = NoResult
    /\ pc = "loaded"
    /\ problems = NoProblems
    /\ progress_bar = NoBar
    /\ loop = NoLoop
    /\ session_state = NoSession
    /\ uploaded_file = NoFile

NextClean == Clean

SpecClean == InitClean /\ [][NextClean]_vars

\* ------------------------------------------------------------------ SpecProgress:
\* intersect_bedtools_advanced step by step: the preparation up to the
\* creation of the progress bar, one step per chromosome group, the end.
\* A fraction is the pair of the integers Python divides.
Fraction(num, den) == [num |-> num, den |-> den]

FractionLess(x, y) == x.num * y.den < y.num * x.den

\* (i + 1) / total_chroms, for the position i that enumerate counts from 0.
ProgressFractionFromZero(i, total_chroms) == Fraction(i, total_chroms)

ProgressFraction(i, total_chroms) == Fraction(i + 1, total_chroms)

\* One row per chromosome, the same interval in each.
ProgressChroms == {"chr1", "chr2", "chr10"}
ProgressRows ==
    {[idx |-> 0, chrom |-> c, start |-> Num(0), end |-> Num(1), name |-> "n"] :
        c \in ProgressChroms}

InitProgress ==
    /\ df \in FramesOver(ProgressRows, MaxRows)
            \cup {FirstColumns(frame, 2) : frame \in FramesOver(ProgressRows, 1)}
    /\ df2 \in FramesOver(ProgressRows, MaxRows)
    /\ options = NoOptions
    /\ arg = df
    /\ result = NoResult
    /\ pc = "loaded"
    /\ problems = NoProblems
    /\ progress_bar = NoBar
    /\ loop = NoLoop
    /\ session_state = NoSession
    /\ uploaded_file = NoFile

\* Lines 64-103: the preparation, the early returns, st.progress(0).
BeginIntersect ==
    /\ pc = "loaded"
    /\ \E opts \in PairOptions :
          /\ options' = opts
          /\ IF Len(df.columns) < 3 \/ Len(df2.columns) < 3
             THEN /\ result' = ReturnedNone
                  /\ pc' = "intersected"
                  /\ UNCHANGED <<progress_bar, loop>>
             ELSE IF common_chroms(df, df2) = {}
             THEN /\ result' = NoIntersection
                  /\ pc' = "intersected"
                  /\ UNCHANGED <<progress_bar, loop>>
             ELSE /\ \E order \in SetOrders(common_chroms(df, df2)) :
                        loop' = [order |-> order, i |-> 0, results |-> <<>>]
                  /\ progress_bar' = [shown |-> TRUE, value |-> Fraction(0, 1),
                                      reports |-> <<>>]
                  /\ pc' = "looping"
                  /\ UNCHANGED result
    /\ UNCHANGED <<df, df2, arg, problems, session_state, uploaded_file>>

\* Lines 105-148: one pass of the for loop.
VisitGroup ==
    /\ pc = "looping"
    /\ loop.i < Len(loop.order)
    /\ LET total_chroms == Len(loop.order)
           fraction == ProgressFraction(loop.i, total_chroms)
           chrom == loop.order[loop.i + 1]
       IN  /\ progress_bar' = [progress_bar EXCEPT
                                  !.value = fraction,
                                  !.reports = Append(@, fraction)]
           /\ loop' = [loop EXCEPT
                          !.i = @ + 1,
                          !.results = @ \o GroupResults(ThreeColumns(df),
                                                        ThreeColumns(df2),
                                                        chrom, options)]
    /\ UNCHANGED <<df, df2, options, arg, result, pc, problems,
                   session_state, uploaded_file>>

\* Lines 150-202: the bar is taken off the page, the table is built.
EndIntersect ==
    /\ pc = "looping"
    /\ loop.i = Len(loop.order)
    /\ progress_bar' = [progress_bar EXCEPT !.shown = FALSE]
    /\ result' = IF loop.results = <<>> THEN NoIntersection
                 ELSE IF get(options, "v", FALSE)
                 THEN Returned(NonIntersecting(ThreeColumns(df), ThreeColumns(df2),
                                               common_chroms(df, df2)))
                 ELSE Returned(SelectColumns(Reindex(loop.results), options))
    /\ pc' = "intersected"
    /\ UNCHANGED <<df, df2, options, arg, problems, loop,
                   session_state, uploaded_file>>

NextProgress == BeginIntersect \/ VisitGroup \/ EndIntersect

SpecProgress == InitProgress /\ [][NextProgress]_vars

\* ------------------------------------------------------------------ SpecSession:
\* the application over a sequence of events.  Every event makes Streamlit
\* run main again: lines 136-194 first, then the handler of the widget.
\* uploaded_file is the content of the uploader, df the local df of the last
\* run, pc tells whether Clean File was pressed on the current upload, arg
\* is the last tool run since and the table it was given.
NoTable == [kind |-> "None"]
NoName == "None"
NoMode == "None"
NoTool == [tool |-> "none", input |-> NoTable]

\* Lines 136-148.
InitialSession ==
    [current_mode |-> NoMode, file_loaded |-> FALSE, current_file |-> NoName,
     cleaned_df |-> NoTable, detected_problems |-> NoProblems]

\* The lines of the files of the session: a clean record, a random contig,
\* a record with start = end, a record with start > end.
SessionRows ==
    <<[chrom |-> "chr1", start |-> StrNum(0), end |-> StrNum(1), name |-> "n"],
      [chrom |-> "chr2_random", start |-> StrNum(0), end |-> StrNum(1), name |-> "n"],
      [chrom |-> "chr1", start |-> StrNum(1), end |-> StrNum(1), name |-> "n"],
      [chrom |-> "chr1", start |-> StrNum(1), end |-> StrNum(0), name |-> "n"]>>

SessionContents ==
    {<<SessionRows[1]>>, <<SessionRows[2]>>, <<SessionRows[1], SessionRows[2]>>,
     <<SessionRows[3]>>, <<SessionRows[4]>>}

SessionNames == {"a.bed", "b.bed"}

SessionFiles ==
    {[name |-> n, ncols |-> 3, rows |-> [i \in 1..Len(rows) |-> FileRow(rows[i], 3)]] :
        n \in SessionNames, rows \in SessionContents}

\* main, lines 153-191, on the session state and the uploader's content:
\* the session state and the local df they leave.  The uploader hands over
\* the whole content of the file on every run.
Main(state, file) ==
    IF file = NoFile
    THEN [session |-> state, df |-> NoTable]
    ELSE LET fresh == IF state.current_file # file.name
                      THEN [state EXCEPT !.file_loaded = FALSE,
                                         !.cleaned_df = NoTable,
                                         !.detected_problems = NoProblems]
                      ELSE state
             loaded == load_bed(file)
         IN  IF loaded.kind # "DataFrame"
             THEN [session |-> [fresh EXCEPT !.file_loaded = FALSE], df |-> NoTable]
             ELSE IF fresh.file_loaded
             THEN [session |-> fresh, df |-> loaded.frame]
             ELSE [session |->
                      [fresh EXCEPT
                          !.detected_problems =
                              IF validate_bed_format(loaded.frame)
                              THEN detect_bed_problems(loaded.frame) ELSE @,
                          !.cleaned_df = loaded.frame,
                          !.file_loaded = TRUE,
                          !.current_file = file.name],
                   df |-> loaded.frame]

\* Line 194.
current_df_of(state, frame) ==
    IF state.cleaned_df # NoTable THEN state.cleaned_df ELSE frame

current_df == current_df_of(session_state, df)

InitSession ==
    /\ uploaded_file = NoFile
    /\ session_state = InitialSession
    /\ df = NoTable
    /\ df2 = EmptyDataFrame
    /\ options = NoOptions
    /\ arg = NoTool
    /\ result = NoResult
    /\ pc = "no_file"
    /\ problems = NoProblems
    /\ progress_bar = NoBar
    /\ loop = NoLoop

\* A file is put into the uploader (a first upload or a re-upload).
UploadFile ==
    /\ \E file \in SessionFiles :
          /\ uploaded_file' = file
          /\ session_state' = Main(session_state, file).session
          /\ df' = Main(session_state, file).df
    /\ pc' = "uploaded"
    /\ arg' = NoTool
    /\ UNCHANGED <<df2, options, result, problems, progress_bar, loop>>

\* The file is taken out of the uploader.
RemoveFile ==
    /\ uploaded_file # NoFile
    /\ uploaded_file' = NoFile
    /\ session_state' = Main(session_state, NoFile).session
    /\ df' = Main(session_state, NoFile).df
    /\ pc' = "no_file"
    /\ arg' = NoTool
    /\ UNCHANGED <<df2, options, result, problems, progress_bar, loop>>

\* Lines 203-231 and the Back buttons: Preview, Viz, Tools (enabled when
\* current_df is not None), Back (shown in a mode with a current table).
ChangeMode ==
    /\ LET run == Main(session_state, uploaded_file) IN
        /\ current_df_of(run.session, run.df) # NoTable
        /\ \E mode \in {"preview", "dataviz", "bedtools", NoMode} :
              /\ mode = NoMode => run.session.current_mode # NoMode
              /\ mode # run.session.current_mode
              /\ session_state' =
                     Main([run.session EXCEPT !.current_mode = mode],
                          uploaded_file).session
        /\ df' = run.df
    /\ UNCHANGED <<df2, options, arg, result, pc, problems, progress_bar, loop,
                   uploaded_file>>

\* Lines 234-273: the Clean File button of the preview.
CleanFileButton ==
    /\ LET run == Main(session_state, uploaded_file)
           table == current_df_of(run.session, run.df)
       IN  /\ run.session.current_mode = "preview"
           /\ table # NoTable
           /\ run.session.detected_problems # NoProblems
           /\ run.session.detected_problems.total > 0
           /\ session_state' =
                  Main([run.session EXCEPT
                            !.cleaned_df = clean_bed_file(table),
                            !.detected_problems = NoProblems],
                       uploaded_file).session
           /\ df' = run.df
    /\ pc' = "cleaned"
    /\ arg' = NoTool
    /\ UNCHANGED <<df2, options, result, problems, progress_bar, loop, uploaded_file>>

\* Lines 335-339: Sort.
SortButton ==
    /\ LET run == Main(session_state, uploaded_file)
           table == current_df_of(run.session, run.df)
       IN  /\ run.session.current_mode = "bedtools"
           /\ table # NoTable
           /\ result' = Returned(sort_bed(table))
           /\ arg' = [tool |-> "sort", input |-> table]
           /\ session_state' = run.session
           /\ df' = run.df
    /\ UNCHANGED <<df2, options, pc, problems, progress_bar, loop, uploaded_file>>

\* Lines 330-333: Merge; merge_bed_files works on the table it is given.
MergeButton ==
    /\ LET run == Main(session_state, uploaded_file)
           table == current_df_of(run.session, run.df)
           call == merge_bed_files(table)
       IN  /\ run.session.current_mode = "bedtools"
           /\ table # NoTable
           /\ result' = call.ret
           /\ arg' = [tool |-> "merge", input |-> table]
           /\ session_state' =
                  IF run.session.cleaned_df # NoTable
                  THEN [run.session EXCEPT !.cleaned_df = call.df]
                  ELSE run.session
           /\ df' = IF run.session.cleaned_df # NoTable THEN run.df ELSE call.df
    /\ UNCHANGED <<df2, options, pc, problems, progress_bar, loop, uploaded_file>>

\* Lines 341-375: Intersect, a second file, Run.
IntersectRun ==
    /\ uploaded_file # NoFile
    /\ LET run == Main(session_state, uploaded_file)
           table == current_df_of(run.session, run.df)
       IN  /\ run.session.current_mode = "bedtools"
           /\ table # NoTable
           /\ session_state' = run.session
           /\ df' = run.df
    /\ \E file_b \in SessionFiles :
          LET df1 == read_bed_file(uploaded_file).frame
              second == read_bed_file(file_b).frame
          IN  \E order \in SetOrders(common_chroms(df1, second)) :
                  /\ df2' = second
                  /\ result' = intersect_bedtools(df1, second, order)
                  /\ arg' = [tool |-> "intersect", input |-> df1]
    /\ UNCHANGED <<options, pc, problems, progress_bar, loop, uploaded_file>>

NextSession ==
    \/ UploadFile
    \/ RemoveFile
    \/ ChangeMode
    \/ CleanFileButton
    \/ SortButton
    \/ MergeButton
    \/ IntersectRun

SpecSession == InitSession /\ [][NextSession]_vars

\* ------------------------------------------------------------------ claims
\* The (chrom, start, end) records of a frame, in order.
Keys(frame) ==
    [i \in 1..Len(frame.rows) |->
        <<frame.rows[i].chrom, frame.rows[i].start.v, frame.rows[i].end.v>>]

KeySet(frame) == {Keys(frame)[i] : i \in 1..Len(frame.rows)}

\* C1: the output of merge holds no two records on one chromosome whose
\* ranges overlap or touch: one ends strictly before the other starts.
MergeOutputDisjoint ==
    (pc = "merged" /\ result.kind = "DataFrame") =>
        \A i, j \in 1..Len(result.frame.rows) :
            LET r1 == result.frame.rows[i]
                r2 == result.frame.rows[j]
            IN  (i # j /\ r1.chrom = r2.chrom) =>
                    (r1.end.v < r2.start.v \/ r2.end.v < r1.start.v)

\* Three input rows, two of them collapsed, two output records on one chromosome.
MergeOutputDisjointWitness ==
    /\ pc = "merged"
    /\ Len(arg.rows) = 3
    /\ Len(result.frame.rows) = 2
    /\ result.frame.rows[1].chrom = result.frame.rows[2].chrom

\* C2: merging a merged table changes nothing: same records, same order.
MergeIdempotent ==
    [][(pc = "merged" /\ pc' = "remerged") => result' = result]_vars

\* The intervals of a table: the rows whose coordinates are numbers.
Intervals(frame) ==
    {<<r.chrom, r.start.v, r.end.v>> :
        r \in {x \in {CoerceRow(frame.rows[i]) : i \in 1..Len(frame.rows)} :
                  x.start.t = "num" /\ x.end.t = "num"}}

WellOrdered(frame) == \A t \in Intervals(frame) : t[2] <= t[3]

\* Two intervals of one chromosome overlap or touch.
Connected(a, b) == a[1] = b[1] /\ a[2] <= b[3] /\ b[2] <= a[3]

RECURSIVE Component(_, _)
Component(C, S) ==
    LET N == {x \in S : \E y \in C : Connected(x, y)}
    IN  IF N \subseteq C THEN C ELSE Component(C \cup N, S)

MinStart(C) == CHOOSE s \in {t[2] : t \in C} : \A t \in C : s <= t[2]
MaxEnd(C) == CHOOSE e \in {t[3] : t \in C} : \A t \in C : e >= t[3]

\* One record [min(starts), max(ends)] per maximal connected group.
MergeReference(frame) ==
    {LET C == Component({t}, Intervals(frame))
     IN  <<t[1], MinStart(C), MaxEnd(C)>> : t \in Intervals(frame)}

\* C3: the output of merge is the reference result: one record per maximal
\* group of intervals connected by overlap or adjacency, and nothing else.
MergeEqualsReference ==
    (pc = "merged" /\ WellOrdered(arg)) =>
        /\ result.kind = "DataFrame"
        /\ KeySet(result.frame) = MergeReference(arg)
        /\ Cardinality(KeySet(result.frame)) = Len(result.frame.rows)

\* The same, for the tables none of whose cells is missing.
MergeEqualsReferenceOnCompleteRows ==
    (pc = "merged" /\ WellOrdered(arg) /\ dropna(arg.rows) = arg.rows) =>
        /\ KeySet(result.frame) = MergeReference(arg)
        /\ Cardinality(KeySet(result.frame)) = Len(result.frame.rows)

\* The frame with its rows in the order p, each row keeping its index label.
Permuted(frame, p) ==
    DataFrame(frame.columns, [i \in 1..Len(frame.rows) |-> frame.rows[p[i]]])

\* C4: merge yields the same (chrom, start, end) records for every order
\* of the rows of its input.
MergeOrderIndependent ==
    pc = "merged" =>
        \A p \in Permutations(1..Len(arg.rows)) :
            LET other == merge_bed_files(Permuted(arg, p)).ret
            IN  other.kind = result.kind /\ Keys(other.frame) = Keys(result.frame)

\* An input that was not in key order, and whose rows were collapsed.
MergeOrderIndependentWitness ==
    /\ pc = "merged"
    /\ Len(arg.rows) = 3
    /\ dropna(arg.rows) = arg.rows
    /\ KeyLess(arg.rows[3], arg.rows[1])
    /\ Len(result.frame.rows) = 2

\* C5: sort, merge and clean leave the table they are given unchanged.
InputUnchanged ==
    pc \in {"sorted", "merged", "cleaned"} => df = arg

\* ---- intersection claims
\* The records of A and of B with numeric coordinates, as the claims see them.
RecordsA == ThreeColumns(df)
RecordsB == ThreeColumns(df2)

SixOf(r) == <<r.A_chrom, r.A_start, r.A_end, r.B_chrom, r.B_start, r.B_end>>
PairSix(a, b) == <<a.chrom, a.start, a.end, b.chrom, b.start, b.end>>

\* The pairs (a, b) of one chromosome with b.start < a.end and b.end > a.start.
TestPairs ==
    {p \in (1..Len(RecordsA)) \X (1..Len(RecordsB)) :
        LET a == RecordsA[p[1]]
            b == RecordsB[p[2]]
        IN  a.chrom = b.chrom /\ b.start < a.end /\ b.end > a.start}

\* min(a.end, b.end) - max(a.start, b.start)
PairLength(p) ==
    LET a == RecordsA[p[1]]
        b == RecordsB[p[2]]
    IN  (IF a.end <= b.end THEN a.end ELSE b.end)
          - (IF a.start >= b.start THEN a.start ELSE b.start)

PositivePairs == {p \in TestPairs : PairLength(p) > 0}

\* The result holds exactly one six-column row per pair of P.
OneRowPerPair(P) ==
    /\ result.kind = "DataFrame"
    /\ Len(result.frame.rows) = Cardinality(P)
    /\ \A p \in P :
          Cardinality({k \in 1..Len(result.frame.rows) :
                          SixOf(result.frame.rows[k]) = PairSix(RecordsA[p[1]], RecordsB[p[2]])})
            = Cardinality({q \in P : PairSix(RecordsA[q[1]], RecordsB[q[2]])
                                       = PairSix(RecordsA[p[1]], RecordsB[p[2]])})

PairMode == pc = "intersected" /\ options.wa /\ options.wb /\ ~options.wo /\ ~options.v

WoMode == pc = "intersected" /\ options.wo /\ ~options.v

\* The result holds the seven-column row of the pair p.
RowOfPair(p) ==
    /\ result.kind = "DataFrame"
    /\ \E k \in 1..Len(result.frame.rows) :
          /\ SixOf(result.frame.rows[k]) = PairSix(RecordsA[p[1]], RecordsB[p[2]])
          /\ result.frame.rows[k].overlap = PairLength(p)

\* C7 as stated: every pair passing the overlap test has an overlap length
\* greater than 0, which with wo is the 7th column of its row.
TestPairLengthPositive ==
    WoMode => \A p \in TestPairs : PairLength(p) > 0 /\ RowOfPair(p)

ProperPairs ==
    {p \in TestPairs : /\ RecordsA[p[1]].start < RecordsA[p[1]].end
                       /\ RecordsB[p[2]].start < RecordsB[p[2]].end}

\* C7: every pair of records with start < end that passes the overlap test
\* has an overlap length greater than 0, with wo that length is the 7th column
\* of the row of the pair, and every 7th column is the length of its row's pair.
ProperPairLengthPositive ==
    WoMode =>
        /\ \A p \in ProperPairs : PairLength(p) > 0 /\ RowOfPair(p)
        /\ result.kind = "DataFrame"
        /\ \A k \in 1..Len(result.frame.rows) :
              \E p \in TestPairs :
                  /\ SixOf(result.frame.rows[k]) = PairSix(RecordsA[p[1]], RecordsB[p[2]])
                  /\ result.frame.rows[k].overlap = PairLength(p)
                  /\ result.frame.rows[k].overlap > 0

\* A partial overlap: the overlap column is shorter than the A record.
ProperPairLengthPositiveWitness ==
    /\ WoMode
    /\ Len(result.frame.rows) = 1
    /\ result.frame.rows[1].overlap = 1
    /\ result.frame.rows[1].A_end - result.frame.rows[1].A_start = 2

ATriples(frame) ==
    [k \in 1..Len(frame.rows) |->
        <<frame.rows[k].A_chrom, frame.rows[k].A_start, frame.rows[k].A_end>>]

\* The A records, in order, that no B record overlaps.
WithoutOverlap ==
    SelectSeq([i \in 1..Len(RecordsA) |->
                  <<RecordsA[i].chrom, RecordsA[i].start, RecordsA[i].end, i>>],
              LAMBDA t : ~\E p \in TestPairs : p[1] = t[4])

\* C8: with v the result holds, for every A record, a row iff no B record
\* overlaps it, also when no chromosome is shared or no pair overlaps.
InvertedReportsAllWithoutOverlap ==
    (pc = "intersected" /\ options.v) =>
        /\ result.kind = "DataFrame"
        /\ ATriples(result.frame) =
              [k \in 1..Len(WithoutOverlap) |->
                  <<WithoutOverlap[k][1], WithoutOverlap[k][2], WithoutOverlap[k][3]>>]

InTriples(frame, a) ==
    \E k \in 1..Len(frame.rows) : ATriples(frame)[k] = <<a.chrom, a.start, a.end>>

\* C9: every A record with numeric start <= end is either in the wa-only
\* result or in the v result of the same tables, never in both or in neither.
ClassifiedExactlyOnce ==
    (pc = "intersected" /\ options = Option(TRUE, FALSE, FALSE, FALSE, 0)) =>
        LET order == CHOOSE o \in SetOrders(common_chroms(df, df2)) : TRUE
            inverted == intersect_bedtools_advanced(df, df2,
                            Option(TRUE, FALSE, FALSE, TRUE, 0), order)
        IN  \A i \in 1..Len(RecordsA) :
                RecordsA[i].start <= RecordsA[i].end =>
                    (InTriples(result.frame, RecordsA[i])
                        # InTriples(inverted.frame, RecordsA[i]))

\* overlap_length / (a.end - a.start) >= f, with f in percent.
Qualifies(p) ==
    PairLength(p) * 100 >= options.f * (RecordsA[p[1]].end - RecordsA[p[1]].start)

\* C10: the minimum fraction f is applied: a pair is reported, and an A
\* record counts as overlapping in v mode, only if the overlap length divided
\* by the length of a is at least f.
MinFractionApplied ==
    (pc = "intersected" /\ result.kind = "DataFrame") =>
        /\ (options.wa /\ options.wb /\ ~options.v) =>
              \A k \in 1..Len(result.frame.rows) :
                  \E p \in TestPairs :
                      /\ SixOf(result.frame.rows[k]) = PairSix(RecordsA[p[1]], RecordsB[p[2]])
                      /\ Qualifies(p)
        /\ options.v =>
              \A i \in 1..Len(RecordsA) :
                  (/\ \E p \in TestPairs : p[1] = i
                   /\ ~\E p \in TestPairs : p[1] = i /\ Qualifies(p))
                      => InTriples(result.frame, RecordsA[i])

\* ---- column selection and empty results
\* The value the engine reads for an option: the dict's, or the default.
Chosen(key, default) == IF key \in DOMAIN options THEN options[key] ELSE default

PairTriplesA ==
    {<<RecordsA[p[1]].chrom, RecordsA[p[1]].start, RecordsA[p[1]].end>> : p \in PositivePairs}
PairTriplesB ==
    {<<RecordsB[p[2]].chrom, RecordsB[p[2]].start, RecordsB[p[2]].end>> : p \in PositivePairs}

\* The result is the table of the three columns named cols holding each triple
\* of T once.
TripleTable(cols, T) ==
    LET rows == result.frame.rows IN
    /\ result.frame.columns = cols
    /\ \A k \in 1..Len(rows) : DOMAIN rows[k] = {"idx", cols[1], cols[2], cols[3]}
    /\ {<<rows[k][cols[1]], rows[k][cols[2]], rows[k][cols[3]]>> : k \in 1..Len(rows)} = T
    /\ Len(rows) = Cardinality(T)

\* The result is the table of the pairs, of six columns or, with the overlap
\* length, of seven.
PairTable(withLength) ==
    LET rows == result.frame.rows
        six == <<"A_chrom", "A_start", "A_end", "B_chrom", "B_start", "B_end">>
    IN  /\ result.frame.columns = IF withLength THEN six \o <<"overlap">> ELSE six
        /\ OneRowPerPair(PositivePairs)
        /\ \A k \in 1..Len(rows) :
              /\ DOMAIN rows[k] = {"idx"} \cup {result.frame.columns[c] :
                                                  c \in 1..Len(result.frame.columns)}
              /\ withLength =>
                    rows[k].overlap = (IF rows[k].A_end <= rows[k].B_end
                                       THEN rows[k].A_end ELSE rows[k].B_end)
                                    - (IF rows[k].A_start >= rows[k].B_start
                                       THEN rows[k].A_start ELSE rows[k].B_start)

\* C11: with v unset and a non-empty result, the columns follow the priority
\* order: wo gives the seven columns; else wa and wb give the six; else wa
\* gives the A triple, each once; else wb gives the B triple, each once; else
\* the A triple, each once; wa and wb count as set when the options lack them.
ColumnsFollowPriority ==
    (/\ pc = "intersected"
     /\ result.kind = "DataFrame"
     /\ result.frame.rows # <<>>
     /\ ~Chosen("v", FALSE)) =>
        IF Chosen("wo", FALSE) THEN PairTable(TRUE)
        ELSE IF Chosen("wa", TRUE) /\ Chosen("wb", TRUE) THEN PairTable(FALSE)
        ELSE IF Chosen("wa", TRUE) THEN TripleTable(<<"A_chrom", "A_start", "A_end">>, PairTriplesA)
        ELSE IF Chosen("wb", TRUE) THEN TripleTable(<<"B_chrom", "B_start", "B_end">>, PairTriplesB)
        ELSE TripleTable(<<"A_chrom", "A_start", "A_end">>, PairTriplesA)

\* The options hold wb = False only: wa counts as set, and the A record that
\* overlaps two B records is reported once.
ColumnsFollowPriorityWitness ==
    /\ pc = "intersected"
    /\ DOMAIN options = {"wb"}
    /\ ~options["wb"]
    /\ Cardinality(PositivePairs) = 2
    /\ Len(result.frame.rows) = 1
    /\ result.frame.columns = <<"A_chrom", "A_start", "A_end">>

\* A table of fewer than three columns: the computation itself fails.
ComputationFails == Len(df.columns) < 3 \/ Len(df2.columns) < 3

NoChromosomeShared ==
    {RecordsA[i].chrom : i \in 1..Len(RecordsA)}
        \cap {RecordsB[j].chrom : j \in 1..Len(RecordsB)} = {}

EveryAOverlaps == \A i \in 1..Len(RecordsA) : \E p \in TestPairs : p[1] = i

KeyColumnsOf(frame) ==
    DataFrame(<<"chrom", "start", "end">>,
              [i \in 1..Len(frame.rows) |->
                  [idx |-> frame.rows[i].idx, chrom |-> frame.rows[i].chrom,
                   start |-> frame.rows[i].start, end |-> frame.rows[i].end,
                   name |-> NoText]])

\* Every cell of the result is a key cell of a record of A or of B, or an
\* overlap length.
OnlyKeyCells ==
    \A k \in 1..Len(result.frame.rows) :
        LET r == result.frame.rows[k] IN
        /\ DOMAIN r \subseteq {"idx", "A_chrom", "A_start", "A_end",
                                "B_chrom", "B_start", "B_end", "overlap"}
        /\ "A_chrom" \in DOMAIN r =>
              \E i \in 1..Len(df.rows) :
                  /\ r.A_chrom = df.rows[i].chrom
                  /\ r.A_start = df.rows[i].start.v
                  /\ r.A_end = df.rows[i].end.v
        /\ "B_chrom" \in DOMAIN r =>
              \E j \in 1..Len(df2.rows) :
                  /\ r.B_chrom = df2.rows[j].chrom
                  /\ r.B_start = df2.rows[j].start.v
                  /\ r.B_end = df2.rows[j].end.v

\* C13: the intersection depends on the first three columns only: for every
\* option set and every visiting order, the result on A and B is the result
\* on A and B cut to chrom, start, end, so tables that agree on these columns
\* row by row give equal results whatever their annotation cells and column
\* count; and the result holds key cells and overlap lengths only.
AnnotationIndependent ==
    pc = "intersected" =>
        /\ \A order \in SetOrders(common_chroms(df, df2)) :
              intersect_bedtools_advanced(df, df2, options, order)
                = intersect_bedtools_advanced(KeyColumnsOf(df), KeyColumnsOf(df2),
                                              options, order)
        /\ \E order \in SetOrders(common_chroms(df, df2)) :
              result = intersect_bedtools_advanced(KeyColumnsOf(df), KeyColumnsOf(df2),
                                                   options, order)
        /\ OnlyKeyCells

\* A of four columns with one annotation missing and one present, B of three
\* columns, and a result with rows of both shared chromosomes.
AnnotationIndependentWitness ==
    /\ pc = "intersected"
    /\ Len(df.columns) = 4
    /\ Len(df2.columns) = 3
    /\ Len(df.rows) = 2
    /\ df.rows[1].name = NA
    /\ df.rows[2].name = "n"
    /\ Len(result.frame.rows) = 2
    /\ result.frame.rows[1].A_chrom # result.frame.rows[2].A_chrom

\* ---- sort claims
\* The chromosome tokens in the order of their texts, character by character.
LexicalRank(c) ==
    CASE c = "chr1" -> 1
      [] c = "chr10" -> 2
      [] c = "chr2" -> 3

\* a's key (chrom lexical, start numeric, end numeric) is at most b's.
KeyAtMost(a, b) ==
    \/ LexicalRank(a.chrom) < LexicalRank(b.chrom)
    \/ /\ a.chrom = b.chrom
       /\ \/ a.start.v < b.start.v
          \/ a.start.v = b.start.v /\ a.end.v <= b.end.v

\* C14: the output of sort_bed is non-decreasing under the key (chrom
\* lexical, start numeric, end numeric), sorting it again changes nothing,
\* and chr2 5 10, chr1 1 2 sorts to chr1 1 2, chr2 5 10.
SortedAndIdempotent ==
    pc = "sorted" =>
        /\ result.kind = "DataFrame"
        /\ \A i, j \in 1..Len(result.frame.rows) :
              i < j => KeyAtMost(result.frame.rows[i], result.frame.rows[j])
        /\ sort_bed(result.frame) = result.frame
        /\ Keys(arg) = <<(<<"chr2", 5, 10>>), (<<"chr1", 1, 2>>)>> =>
              Keys(result.frame) = <<(<<"chr1", 1, 2>>), (<<"chr2", 5, 10>>)>>

\* Three records in descending key order: chr10 sorts before chr2, and on
\* chr2 the start 5 before the start 10.
SortedAndIdempotentWitness ==
    /\ pc = "sorted"
    /\ Keys(arg) = <<(<<"chr2", 10, 12>>), (<<"chr2", 5, 10>>), (<<"chr10", 1, 2>>)>>
    /\ Keys(result.frame) = <<(<<"chr10", 1, 2>>), (<<"chr2", 5, 10>>), (<<"chr2", 10, 12>>)>>

\* The place of the input row i in the output: sort keeps the index labels.
PlaceOf(i) ==
    CHOOSE k \in 1..Len(result.frame.rows) : result.frame.rows[k].idx = arg.rows[i].idx

\* C15: sort_bed is stable: two records of the input with equal (chrom, start,
\* end) are in the output, unchanged, in the order they had in the input.
SortStable ==
    pc = "sorted" =>
        /\ Len(result.frame.rows) = Len(arg.rows)
        /\ \A i \in 1..Len(arg.rows) :
              /\ \E k \in 1..Len(result.frame.rows) : result.frame.rows[k].idx = arg.rows[i].idx
              /\ result.frame.rows[PlaceOf(i)] = arg.rows[i]
        /\ \A i, j \in 1..Len(arg.rows) :
              (i < j /\ Keys(arg)[i] = Keys(arg)[j]) => PlaceOf(i) < PlaceOf(j)

\* Two records of equal keys and different annotations, first and last in the
\* input, moved behind the record between them.
SortStableWitness ==
    /\ pc = "sorted"
    /\ Len(arg.rows) = 3
    /\ Keys(arg)[1] = Keys(arg)[3]
    /\ arg.rows[1].name = "m"
    /\ arg.rows[3].name = "n"
    /\ PlaceOf(2) = 1
    /\ result.frame.rows[2].name = "m"
    /\ result.frame.rows[3].name = "n"

\* ---- loader claims
\* The upload has been handled.
Handled == pc \in {"file_loaded", "load_failed"}

\* A line of the file whose start and end are numerals with start > end.
FileHoldsInverted(file) ==
    /\ file.ncols >= 3
    /\ \E i \in 1..Len(file.rows) :
          /\ file.rows[i].start.t = "str"
          /\ file.rows[i].end.t = "str"
          /\ file.rows[i].start.v > file.rows[i].end.v

\* C16: a file of fewer than 3 columns fails with the format error and gives
\* no table; a file of 3 or more columns without a start > end row gives a
\* table.
FormatErrorBelowThree ==
    Handled =>
        /\ arg.ncols < 3 =>
              /\ result.kind = "None"
              /\ result.error = "Invalid BED format: minimum 3 columns required"
              /\ pc = "load_failed"
        /\ (arg.ncols >= 3 /\ ~FileHoldsInverted(arg)) =>
              /\ result.kind = "DataFrame"
              /\ pc = "file_loaded"

\* The same, for the files of at most 12 columns.
FormatErrorBelowThreeUpToTwelve ==
    (Handled /\ arg.ncols <= 12) => FormatErrorBelowThree

\* C17: a file of 3 to 12 columns holding a start > end row is loaded all the
\* same: the caller holds the table, with that row, to reject or to clean.
OrderErrorRecoverable ==
    (Handled /\ arg.ncols \in 3..12 /\ FileHoldsInverted(arg)) =>
        /\ pc = "file_loaded"
        /\ result.kind = "DataFrame"
        /\ Len(result.frame.rows) = Len(arg.rows)

\* The loader handed back a table whose 12 columns carry the canonical names,
\* the first of them on the first column of the file.
FirstTwelveLabelled(file, loaded) ==
    /\ loaded.kind = "DataFrame"
    /\ loaded.frame.columns = bed_cols
    /\ Len(loaded.frame.rows) = Len(file.rows)
    /\ \A i \in 1..Len(file.rows) : loaded.frame.rows[i].chrom = file.rows[i].chrom

\* C18: a file of more than 12 columns is loaded, by load_bed and by
\* read_bed_file: its first 12 columns get the canonical names and the rest
\* is dropped.
WideFileLoads ==
    (Handled /\ arg.ncols > 12) =>
        /\ pc = "file_loaded"
        /\ FirstTwelveLabelled(arg, result)
        /\ FirstTwelveLabelled(arg, read_bed_file(arg))

\* A row of the table whose start and end are numbers with start > end.
HoldsInverted(frame) ==
    \E i \in 1..Len(frame.rows) :
        LET r == CoerceRow(frame.rows[i])
        IN  r.start.t = "num" /\ r.end.t = "num" /\ r.start.v > r.end.v

\* C19: no table handed to an engine holds a start > end record: not the
\* table given to sort or merge, and neither of the two tables given to the
\* intersection.
InvertedNeverReachesEngine ==
    /\ pc \in {"sorted", "merged"} => ~HoldsInverted(df)
    /\ pc = "intersected" =>
          /\ ~HoldsInverted(read_bed_file(arg).frame)
          /\ ~HoldsInverted(df2)

\* The same, for sort and merge only.
InvertedNeverReachesSortOrMerge ==
    pc \in {"sorted", "merged"} => ~HoldsInverted(df)

\* ---- scan claims
\* The number of records of df whose chrom contains one of the patterns.
Matching(patterns) ==
    Cardinality({i \in 1..Len(df.rows) : PatternsIn(df.rows[i].chrom) \cap patterns # {}})

\* C20: the report holds, for each category, the number of records that
\* match it, a record of several categories counting once in each; records
\* with start >= end are counted as inverted; total is the sum of the counts;
\* and chr1, chrUn_gl000220, chr2_random with start < end give unplaced 1,
\* random 1, every other count 0, total 2.
ReportCountsRecords ==
    pc = "scanned" =>
        /\ problems.chrUn = Matching({"chrUn"})
        /\ problems.random = Matching({"random"})
        /\ problems.alt = Matching({"_alt"})
        /\ problems.scaffold = Matching({"scaffold"})
        /\ problems.other_bizarre =
              Matching({"_hap", "_CTG", "_v", "KI", "GL", "JH", "NT", "NW_"})
        /\ problems.inverted_coords =
              Cardinality({i \in 1..Len(df.rows) : df.rows[i].start.v >= df.rows[i].end.v})
        /\ problems.total = problems.chrUn + problems.random + problems.alt
                              + problems.scaffold + problems.other_bizarre
                              + problems.inverted_coords
        /\ Keys(df) = <<(<<"chr1", 0, 1>>), (<<"chrUn_gl000220", 0, 1>>),
                        (<<"chr2_random", 0, 1>>)>> =>
              problems = [kind |-> "dict", chrUn |-> 1, random |-> 1, alt |-> 0,
                          scaffold |-> 0, inverted_coords |-> 0, other_bizarre |-> 0,
                          total |-> 2]

\* The same, for the tables none of whose records matches two of the
\* patterns of the last category.
ReportCountsRecordsOfOnePattern ==
    (\A i \in 1..Len(df.rows) :
        Cardinality(PatternsIn(df.rows[i].chrom)
                      \cap {"_hap", "_CTG", "_v", "KI", "GL", "JH", "NT", "NW_"}) <= 1)
        => ReportCountsRecords

\* ---- clean claims
\* The record is one the scan counts: its chrom contains a pattern, or its
\* start and end are numbers with start >= end.
Flagged(r) ==
    \/ PatternsIn(r.chrom)
          \cap {"chrUn", "random", "_alt", "scaffold",
                "_hap", "_CTG", "_v", "KI", "GL", "JH", "NT", "NW_"} # {}
    \/ r.start.t = "num" /\ r.end.t = "num" /\ r.start.v >= r.end.v

\* The report holds 0 in every category.
NothingReported(report) ==
    /\ report.chrUn = 0
    /\ report.random = 0
    /\ report.alt = 0
    /\ report.scaffold = 0
    /\ report.inverted_coords = 0
    /\ report.other_bizarre = 0
    /\ report.total = 0

\* C21: clean_bed_file(T) holds exactly the records of T that the scan does
\* not flag, in their order in T, and the scan of the cleaned table reports 0
\* in every category.
CleanKeepsExactlyUnflagged ==
    pc = "cleaned" =>
        /\ result.kind = "DataFrame"
        /\ result.frame.rows = SelectSeq(arg.rows, LAMBDA r : ~Flagged(r))
        /\ NothingReported(detect_bed_problems(result.frame))

\* The same, for the tables whose start and end cells are all numbers.
CleanKeepsExactlyUnflaggedOfNumbers ==
    (\A i \in 1..Len(arg.rows) :
        arg.rows[i].start.t = "num" /\ arg.rows[i].end.t = "num")
        => CleanKeepsExactlyUnflagged

\* What every cleaning satisfies: flagged records go, and the scan of the
\* cleaned table reports nothing.
CleanRemovesFlagged ==
    pc = "cleaned" =>
        /\ \A k \in 1..Len(result.frame.rows) : ~Flagged(result.frame.rows[k])
        /\ NothingReported(detect_bed_problems(result.frame))

\* ---- visiting order claims
\* The results of the call of the state, had the shared chromosomes been
\* visited in the given order.
RunIn(order) == intersect_bedtools_advanced(df, df2, options, order)

\* The two results hold the same rows, index labels apart, each as often.
SameRows(ret1, ret2) ==
    IF ret1.kind = "DataFrame" /\ ret2.kind = "DataFrame"
    THEN /\ Len(ret1.frame.rows) = Len(ret2.frame.rows)
         /\ \E p \in Permutations(1..Len(ret1.frame.rows)) :
               \A k \in 1..Len(ret1.frame.rows) :
                   [ret1.frame.rows[k] EXCEPT !.idx = 0]
                       = [ret2.frame.rows[p[k]] EXCEPT !.idx = 0]
    ELSE ret1 = ret2

\* C22: two runs of intersect_bedtools_advanced on the same A, B and options
\* return the same table, rows in the same order, whatever the order in which
\* the shared chromosomes are visited.
RunsAgree ==
    pc = "intersected" =>
        \A order \in SetOrders(common_chroms(df, df2)) : RunIn(order) = result

\* Two runs agree on the kind of the result, on its columns and on its rows
\* up to their order.
RunsAgreeUpToRowOrder ==
    pc = "intersected" =>
        \A order \in SetOrders(common_chroms(df, df2)) :
            /\ RunIn(order).kind = result.kind
            /\ SameRows(RunIn(order), result)
            /\ result.kind = "DataFrame" =>
                  RunIn(order).frame.columns = result.frame.columns

\* Two runs that report the records of A without overlap agree.
RunsAgreeWithoutOverlap ==
    pc = "intersected" /\ get(options, "v", FALSE) =>
        \A order \in SetOrders(common_chroms(df, df2)) : RunIn(order) = result

\* ---- progress claims
\* The call entered the loop: both tables hold three columns and share a
\* chromosome.
LoopEntered ==
    /\ pc \in {"looping", "intersected"}
    /\ Len(df.columns) >= 3
    /\ Len(df2.columns) >= 3
    /\ common_chroms(df, df2) # {}

\* C23: over at least one shared chromosome the reported progress fraction
\* is strictly increasing from group to group, lies in (0, 1], is reported
\* once per shared chromosome, and is 1 once the last group is processed,
\* all before the result is returned.
ProgressAdvances ==
    LoopEntered =>
        LET reports == progress_bar.reports
            total == Cardinality(common_chroms(df, df2))
        IN  /\ Len(reports) = loop.i
            /\ Len(reports) <= total
            /\ \A k \in 1..Len(reports) :
                  /\ FractionLess(Fraction(0, 1), reports[k])
                  /\ ~FractionLess(Fraction(1, 1), reports[k])
            /\ \A k \in 1..(Len(reports) - 1) : FractionLess(reports[k], reports[k + 1])
            /\ pc = "looping" => result = NoResult
            /\ loop.i = total =>
                  /\ reports[total].num = reports[total].den
                  /\ progress_bar.value = reports[total]
            /\ pc = "intersected" => Len(reports) = total /\ result # NoResult

ProgressAdvancesWitness ==
    /\ LoopEntered
    /\ pc = "intersected"
    /\ Len(progress_bar.reports) >= 2
    /\ result.kind = "DataFrame"
    /\ Len(result.frame.rows) >= 2

\* The steps build the table the one-step model of the call builds.
StepsBuildTheResult ==
    LoopEntered /\ pc = "intersected" =>
        result = intersect_bedtools_advanced(df, df2, options, loop.order)

\* ---- coverage claims
\* The input record has a chrom, and numbers start <= end.
Complete(r) ==
    /\ r.chrom # NA
    /\ to_numeric(r.start).t = "num"
    /\ to_numeric(r.end).t = "num"
    /\ to_numeric(r.start).v <= to_numeric(r.end).v

\* The output records of the merge that contain the input record.
Containing(r) ==
    IF result.kind = "DataFrame"
    THEN {k \in 1..Len(result.frame.rows) :
             /\ result.frame.rows[k].chrom = r.chrom
             /\ result.frame.rows[k].start.v <= to_numeric(r.start).v
             /\ to_numeric(r.end).v <= result.frame.rows[k].end.v}
    ELSE {}

\* C24: every input record with a chrom and numbers start <= end lies in
\* exactly one output record of its chromosome, whatever its annotation
\* columns hold.
MergeLosesNoInterval ==
    pc = "merged" =>
        \A i \in 1..Len(arg.rows) :
            Complete(arg.rows[i]) => Cardinality(Containing(arg.rows[i])) = 1

\* The same, for the records whose annotation is not missing.
MergeLosesNoAnnotatedInterval ==
    pc = "merged" =>
        \A i \in 1..Len(arg.rows) :
            Complete(arg.rows[i]) /\ arg.rows[i].name # NA
                => Cardinality(Containing(arg.rows[i])) = 1

\* ---- session claims
\* Every row of the table is a row of the table load_bed makes of the file.
DerivesFrom(table, file) ==
    /\ load_bed(file).kind = "DataFrame"
    /\ \A k \in 1..Len(table.rows) :
          \E i \in 1..Len(load_bed(file).frame.rows) :
              table.rows[k] = load_bed(file).frame.rows[i]

\* C25: after any sequence of upload, re-upload, clean, mode change and
\* removal, the current table is None whenever no file is uploaded, and
\* derives from the content of the uploaded file whenever one is.
CurrentTableFollowsUploader ==
    /\ uploaded_file = NoFile => current_df = NoTable
    /\ uploaded_file # NoFile /\ current_df # NoTable
          => DerivesFrom(current_df, uploaded_file)

\* Right after an upload under another name than the session's current file,
\* the current table is None or derives from the uploaded file.
CurrentTableFollowsRenamedUpload ==
    [][UploadFile /\ uploaded_file'.name # session_state.current_file
          => \/ current_df' = NoTable
             \/ DerivesFrom(current_df', uploaded_file')]_vars

\* The tools are offered a table.
ToolsOffered ==
    /\ session_state.current_mode = "bedtools"
    /\ current_df # NoTable

\* C26: the current table offered to Sort, Merge and Intersect is not None
\* only if validate_bed_format reported the loaded table as valid.
ToolsOnlyOnValidTable ==
    ToolsOffered /\ df # NoTable => validate_bed_format(df)

\* C27: once Clean File is pressed, every later Sort, Merge and Intersect on
\* the same upload is given the cleaned table: no record that cleaning
\* removes is in its input.
ToolsTakeCleanedTable ==
    pc = "cleaned" /\ arg.tool # "none" =>
        clean_bed_file(DataFrame(arg.input.columns,
                                 [k \in 1..Len(arg.input.rows) |->
                                     CoerceRow(arg.input.rows[k])])).rows
            = [k \in 1..Len(arg.input.rows) |-> CoerceRow(arg.input.rows[k])]

\* The same for Sort and Merge, which are given current_df.
SortAndMergeTakeCleanedTable ==
    pc = "cleaned" /\ arg.tool \in {"sort", "merge"} => ToolsTakeCleanedTable

====
